---- MODULE Spec2Model ----
(***************************************************************************)
(* RexResearchCrawler: main.py (command line, exit status) driving         *)
(* run_crawler.py (RexResearchCrawler: get_page, extract_invention_links,  *)
(* crawl_invention_page, save_invention_file, run_crawler).                *)
(*                                                                         *)
(* A Python str is modelled as a sequence of one-character strings, so     *)
(* that lower(), substring tests, endswith(), urljoin() and the file-name  *)
(* regular expressions are computed character by character.                *)
(***************************************************************************)
EXTENDS Integers, Sequences, FiniteSets, TLC

----------------------------------------------------------------------------
(* Characters and elementary str operations                                *)

LowerLetters == {"a", "b", "c", "d", "e", "f", "g", "h", "i", "j", "k", "l", "m", "n", "o", "p", "q", "r", "s", "t", "u", "v", "w", "x", "y", "z"}
UpperLetters == {"A", "B", "C", "D", "E", "F", "G", "H", "I", "J", "K", "L", "M", "N", "O", "P", "Q", "R", "S", "T", "U", "V", "W", "X", "Y", "Z"}
Digits == {"0", "1", "2", "3", "4", "5", "6", "7", "8", "9"}
Whitespace == {" ", "\n", "\t"}

\* str.lower() on one character
LowerChar(c) ==
    CASE c = "A" -> "a"
         [] c = "B" -> "b"
         [] c = "C" -> "c"
         [] c = "D" -> "d"
         [] c = "E" -> "e"
         [] c = "F" -> "f"
         [] c = "G" -> "g"
         [] c = "H" -> "h"
         [] c = "I" -> "i"
         [] c = "J" -> "j"
         [] c = "K" -> "k"
         [] c = "L" -> "l"
         [] c = "M" -> "m"
         [] c = "N" -> "n"
         [] c = "O" -> "o"
         [] c = "P" -> "p"
         [] c = "Q" -> "q"
         [] c = "R" -> "r"
         [] c = "S" -> "s"
         [] c = "T" -> "t"
         [] c = "U" -> "u"
         [] c = "V" -> "v"
         [] c = "W" -> "w"
         [] c = "X" -> "x"
         [] c = "Y" -> "y"
         [] c = "Z" -> "z"
         [] OTHER -> c

\* str.lower()
Lower(s) == [k \in 1..Len(s) |-> LowerChar(s[k])]

\* `sub in s`
Contains(s, sub) ==
    \E k \in 1..(Len(s) - Len(sub) + 1) : SubSeq(s, k, k + Len(sub) - 1) = sub

\* s.startswith(p)
StartsWith(s, p) == Len(s) >= Len(p) /\ SubSeq(s, 1, Len(p)) = p

\* s.endswith(p)
EndsWith(s, p) == Len(s) >= Len(p) /\ SubSeq(s, Len(s) - Len(p) + 1, Len(s)) = p

\* s.isdigit(): non-empty and every character a digit
IsDigitStr(s) == Len(s) > 0 /\ \A k \in 1..Len(s) : s[k] \in Digits

\* any(keyword in s for keyword in keywords)
ContainsAny(s, keywords) == \E w \in keywords : Contains(s, w)

\* the elements of a sequence
Range(s) == {s[k] : k \in 1..Len(s)}

\* s.strip()
RECURSIVE LStrip(_)
LStrip(s) == IF s # <<>> /\ Head(s) \in Whitespace THEN LStrip(Tail(s)) ELSE s
RECURSIVE RStrip(_)
RStrip(s) ==
    IF s # <<>> /\ s[Len(s)] \in Whitespace THEN RStrip(SubSeq(s, 1, Len(s) - 1)) ELSE s
Strip(s) == RStrip(LStrip(s))

----------------------------------------------------------------------------
(* run_crawler.py: the link classifier                                     *)

base_domain == <<"h", "t", "t", "p", "s", ":", "/", "/", "w", "w", "w", ".", "r", "e", "x", "r", "e", "s", "e", "a", "r", "c", "h", ".", "c", "o", "m">>
default_base_url == <<"h", "t", "t", "p", "s", ":", "/", "/", "w", "w", "w", ".", "r", "e", "x", "r", "e", "s", "e", "a", "r", "c", "h", ".", "c", "o", "m", "/", "i", "n", "v", "n", "i", "n", "d", "x", ".", "h", "t", "m", "l">>
DotHtml == <<".", "h", "t", "m", "l">>

exclude_patterns ==
    { <<"j", "a", "v", "a", "s", "c", "r", "i", "p", "t", ":">>,
      <<"m", "a", "i", "l", "t", "o", ":">>,
      <<"#">>,
      <<"h", "t", "t", "p", ":", "/", "/">>,
      <<"h", "t", "t", "p", "s", ":", "/", "/">>,
      <<"i", "n", "d", "e", "x", ".", "h", "t", "m", "l">>,
      <<"h", "o", "m", "e", ".", "h", "t", "m", "l">>,
      <<"a", "b", "o", "u", "t", ".", "h", "t", "m", "l">>,
      <<"c", "o", "n", "t", "a", "c", "t", ".", "h", "t", "m", "l">>,
      <<"s", "e", "a", "r", "c", "h", ".", "h", "t", "m", "l">>,
      <<"l", "i", "n", "k", "s", ".", "h", "t", "m", "l">>,
      <<"d", "i", "s", "c", "l", "a", "i", "m", "e", "r", ".", "h", "t", "m", "l">> }

exclude_texts ==
    { <<"h", "o", "m", "e">>,
      <<"b", "a", "c", "k">>,
      <<"t", "o", "p">>,
      <<"i", "n", "d", "e", "x">>,
      <<"s", "e", "a", "r", "c", "h">>,
      <<"c", "o", "n", "t", "a", "c", "t">>,
      <<"a", "b", "o", "u", "t">>,
      <<"l", "i", "n", "k", "s">>,
      <<"d", "i", "s", "c", "l", "a", "i", "m", "e", "r">>,
      <<"r", "e", "x", "r", "e", "s", "e", "a", "r", "c", "h">>,
      <<"i", "n", "v", "e", "n", "t", "o", "r", " ", "i", "n", "d", "e", "x">>,
      <<"s", "u", "b", "j", "e", "c", "t", " ", "i", "n", "d", "e", "x">> }

energy_keywords ==
    { <<"e", "n", "e", "r", "g", "y">>,
      <<"p", "o", "w", "e", "r">>,
      <<"e", "l", "e", "c", "t", "r", "i", "c">>,
      <<"m", "a", "g", "n", "e", "t", "i", "c">>,
      <<"b", "a", "t", "t", "e", "r", "y">>,
      <<"f", "u", "e", "l">>,
      <<"s", "o", "l", "a", "r">>,
      <<"g", "e", "n", "e", "r", "a", "t", "o", "r">> }

medical_keywords ==
    { <<"m", "e", "d", "i", "c", "a", "l">>,
      <<"h", "e", "a", "l", "t", "h">>,
      <<"t", "h", "e", "r", "a", "p", "y">>,
      <<"h", "e", "a", "l", "i", "n", "g">>,
      <<"c", "u", "r", "e">>,
      <<"t", "r", "e", "a", "t", "m", "e", "n", "t">> }

transport_keywords ==
    { <<"c", "a", "r">>,
      <<"v", "e", "h", "i", "c", "l", "e">>,
      <<"e", "n", "g", "i", "n", "e">>,
      <<"m", "o", "t", "o", "r">>,
      <<"a", "v", "i", "a", "t", "i", "o", "n">>,
      <<"a", "i", "r", "c", "r", "a", "f", "t">> }

Categories == {"energy", "medical", "transport", "general"}

\* is_invention_link with the text.isdigit() test left out
is_invention_link_numeric(href, text) ==
    /\ ~ContainsAny(Lower(href), exclude_patterns)
    /\ ~ContainsAny(Lower(text), exclude_texts)
    /\ EndsWith(href, DotHtml)
    /\ Len(text) > 2
    /\ ~StartsWith(text, <<"[">>)
    /\ ~StartsWith(text, <<"(">>)
    /\ Len(text) < 200

\* is_invention_link(href, text)
is_invention_link(href, text) ==
    /\ ~ContainsAny(Lower(href), exclude_patterns)
    /\ ~ContainsAny(Lower(text), exclude_texts)
    /\ EndsWith(href, DotHtml)
    /\ Len(text) > 2
    /\ ~IsDigitStr(text)
    /\ ~StartsWith(text, <<"[">>)
    /\ ~StartsWith(text, <<"(">>)
    /\ Len(text) < 200

\* get_link_category with the transport keywords tested first
get_link_category_transport_first(text) ==
    IF ContainsAny(Lower(text), transport_keywords) THEN "transport"
    ELSE IF ContainsAny(Lower(text), energy_keywords) THEN "energy"
    ELSE IF ContainsAny(Lower(text), medical_keywords) THEN "medical"
    ELSE "general"

\* get_link_category(text): keyword groups in the order energy, medical, transport
get_link_category(text) ==
    IF ContainsAny(Lower(text), energy_keywords) THEN "energy"
    ELSE IF ContainsAny(Lower(text), medical_keywords) THEN "medical"
    ELSE IF ContainsAny(Lower(text), transport_keywords) THEN "transport"
    ELSE "general"

\* urljoin(base, ref) for an https base and the references the pages of the
\* model hold: a reference with a scheme is the result, a network-path
\* reference "//host/p" takes the base's scheme, an absolute path "/p" replaces
\* the base's path, a leading "./" is removed, and a relative path replaces
\* the last segment of the base's path (the whole path "/" of a bare domain).
RECURSIVE DropDotSlash(_)
DropDotSlash(href) ==
    IF StartsWith(href, <<".", "/">>) THEN DropDotSlash(SubSeq(href, 3, Len(href))) ELSE href

HttpsScheme == <<"h", "t", "t", "p", "s", ":">>
HttpScheme == <<"h", "t", "t", "p", ":">>

\* the reference names its own scheme
HasScheme(ref) ==
    \/ StartsWith(Lower(ref), HttpsScheme \o <<"/", "/">>)
    \/ StartsWith(Lower(ref), HttpScheme \o <<"/", "/">>)

\* position of the first "/" of s at or after p, Len(s) + 1 if there is none
RECURSIVE NextSlash(_, _)
NextSlash(s, p) ==
    IF p > Len(s) THEN Len(s) + 1
    ELSE IF s[p] = "/" THEN p
    ELSE NextSlash(s, p + 1)

\* position of the last "/" of s, 0 if there is none
RECURSIVE LastSlash(_)
LastSlash(s) ==
    IF s = <<>> THEN 0
    ELSE IF s[Len(s)] = "/" THEN Len(s)
    ELSE LastSlash(SubSeq(s, 1, Len(s) - 1))

\* scheme and host of an https URL: everything before the path
Origin(url) == SubSeq(url, 1, NextSlash(url, Len(HttpsScheme) + 3) - 1)

\* the path of an https URL up to and including its last "/"
PathDir(url) ==
    LET path == SubSeq(url, Len(Origin(url)) + 1, Len(url))
    IN IF path = <<>> THEN <<"/">> ELSE SubSeq(path, 1, LastSlash(path))

\* the host part of a reference that has one, else empty
Netloc(ref) ==
    IF StartsWith(ref, <<"/", "/">>) THEN SubSeq(ref, 3, NextSlash(ref, 3) - 1)
    ELSE IF HasScheme(ref)
         THEN LET start == NextSlash(ref, 1) + 2
              IN SubSeq(ref, start, NextSlash(ref, start) - 1)
         ELSE <<>>

\* urlsplit raises ValueError("Invalid IPv6 URL") on a host with one bracket
\* but not the other
urljoin_raises(ref) ==
    LET host == Netloc(ref)
    IN Contains(host, <<"[">>) # Contains(host, <<"]">>)

urljoin(base, href) ==
    IF href = <<>> THEN base
    ELSE IF HasScheme(href) THEN href
    ELSE IF StartsWith(href, <<"/", "/">>) THEN HttpsScheme \o href
    ELSE IF StartsWith(href, <<"/">>) THEN Origin(base) \o href
    ELSE Origin(base) \o PathDir(base) \o DropDotSlash(href)

\* One entry of invention_links (lines 138-143)
MakeLink(href, text) ==
    [name |-> text, url |-> urljoin(base_domain, href), href |-> href,
     category |-> get_link_category(text)]

\* The first loop of extract_invention_links (lines 127-143) over the anchors of
\* the index document, each [href, text] already stripped
RECURSIVE CandidateLinks(_)
CandidateLinks(anchors) ==
    IF anchors = <<>> THEN <<>>
    ELSE LET a == Head(anchors)
             rest == CandidateLinks(Tail(anchors))
         IN IF a.href = <<>> \/ a.text = <<>> THEN rest
            ELSE IF is_invention_link(a.href, a.text)
                 THEN <<MakeLink(a.href, a.text)>> \o rest
                 ELSE rest

\* UniqueLinks that keeps the last link of a URL instead of the first
RECURSIVE UniqueLinksKeepLast(_, _)
UniqueLinksKeepLast(links, seen_urls) ==
    IF links = <<>> THEN <<>>
    ELSE IF \E k \in 2..Len(links) : links[k].url = Head(links).url
         THEN UniqueLinksKeepLast(Tail(links), seen_urls)
         ELSE <<Head(links)>> \o UniqueLinksKeepLast(Tail(links), seen_urls)

\* The de-duplication loop of extract_invention_links (lines 145-151)
RECURSIVE UniqueLinks(_, _)
UniqueLinks(links, seen_urls) ==
    IF links = <<>> THEN <<>>
    ELSE IF Head(links).url \in seen_urls
         THEN UniqueLinks(Tail(links), seen_urls)
         ELSE <<Head(links)>> \o UniqueLinks(Tail(links), seen_urls \cup {Head(links).url})

\* extract_invention_links(soup)
extract_invention_links(anchors) == UniqueLinks(CandidateLinks(anchors), {})

----------------------------------------------------------------------------
(* run_crawler.py: the file name of a record (save_invention_file 433-439) *)

MaxStem == 100
DotTxt == <<".", "t", "x", "t">>

\* \w of the regular expressions
IsWordChar(c) == c \in LowerLetters \cup UpperLetters \cup Digits \cup {"_"}

\* re.sub(r'[^\w\s-]', '', name)
RECURSIVE DropUnsafe(_)
DropUnsafe(s) ==
    IF s = <<>> THEN <<>>
    ELSE IF IsWordChar(Head(s)) \/ Head(s) \in Whitespace \/ Head(s) = "-"
         THEN <<Head(s)>> \o DropUnsafe(Tail(s))
         ELSE DropUnsafe(Tail(s))

\* re.sub(r'[-\s]+', '_', s): every maximal run of hyphens and whitespace
\* becomes one underscore
RECURSIVE CollapseSeparators(_)
CollapseSeparators(s) ==
    IF s = <<>> THEN <<>>
    ELSE IF Head(s) \in Whitespace \cup {"-"}
         THEN IF Len(s) > 1 /\ s[2] \in Whitespace \cup {"-"}
              THEN CollapseSeparators(Tail(s))
              ELSE <<"_">> \o CollapseSeparators(Tail(s))
         ELSE <<Head(s)>> \o CollapseSeparators(Tail(s))

\* s[:n]
Truncate(s, n) == SubSeq(s, 1, IF Len(s) < n THEN Len(s) ELSE n)

\* the first n elements, links[:n]
Prefix(s, n) == SubSeq(s, 1, IF Len(s) < n THEN Len(s) ELSE n)

\* filename of save_invention_file; the output directory is a fixed prefix
FileName(name) ==
    Truncate(CollapseSeparators(Strip(DropUnsafe(name))), MaxStem) \o DotTxt

----------------------------------------------------------------------------
(* run_crawler.py: the content extractor (215-429)                         *)

\* s.replace(old, new): every non-overlapping occurrence, left to right
RECURSIVE ReplaceAll(_, _, _)
ReplaceAll(s, old, new) ==
    IF s = <<>> THEN <<>>
    ELSE IF StartsWith(s, old)
         THEN new \o ReplaceAll(SubSeq(s, Len(old) + 1, Len(s)), old, new)
         ELSE <<Head(s)>> \o ReplaceAll(Tail(s), old, new)

\* re.sub(r'\s+', ' ', s)
RECURSIVE CollapseWhitespace(_)
CollapseWhitespace(s) ==
    IF s = <<>> THEN <<>>
    ELSE IF Head(s) \in Whitespace
         THEN IF Len(s) > 1 /\ s[2] \in Whitespace
              THEN CollapseWhitespace(Tail(s))
              ELSE <<" ">> \o CollapseWhitespace(Tail(s))
         ELSE <<Head(s)>> \o CollapseWhitespace(Tail(s))

\* clean_text (215-232): the six entities, in the order of the code, then the
\* whitespace (after which no line break is left for the second re.sub)
clean_text(text) ==
    LET nbsp == ReplaceAll(text, <<"&", "n", "b", "s", "p", ";">>, <<" ">>)
        amp == ReplaceAll(nbsp, <<"&", "a", "m", "p", ";">>, <<"&">>)
        lt == ReplaceAll(amp, <<"&", "l", "t", ";">>, <<"<">>)
        gt == ReplaceAll(lt, <<"&", "g", "t", ";">>, <<">">>)
        quot == ReplaceAll(gt, <<"&", "q", "u", "o", "t", ";">>, <<"\"">>)
        apos == ReplaceAll(quot, <<"&", "a", "p", "o", "s", ";">>, <<"'">>)
    IN Strip(CollapseWhitespace(apos))

\* os.path.basename(src): what follows the last "/"
basename(src) == SubSeq(src, LastSlash(src) + 1, Len(src))

diagram_keywords ==
    { <<"d", "i", "a", "g", "r", "a", "m">>,
      <<"s", "c", "h", "e", "m", "a", "t", "i", "c">>,
      <<"c", "i", "r", "c", "u", "i", "t">>,
      <<"b", "l", "u", "e", "p", "r", "i", "n", "t">>,
      <<"p", "l", "a", "n">>,
      <<"d", "e", "s", "i", "g", "n">> }

photo_keywords ==
    { <<"p", "h", "o", "t", "o">>,
      <<"p", "i", "c", "t", "u", "r", "e">>,
      <<"i", "m", "a", "g", "e">> }

\* classify_image_type with the photo keywords tested first
classify_image_type_photo_first(filename, alt_text) ==
    IF \E w \in photo_keywords :
          Contains(Lower(filename), w) \/ Contains(Lower(alt_text), w)
    THEN "photo"
    ELSE IF \E w \in diagram_keywords :
               Contains(Lower(filename), w) \/ Contains(Lower(alt_text), w)
         THEN "diagram"
         ELSE "image"

\* classify_image_type(filename, alt_text) (352-365)
classify_image_type(filename, alt_text) ==
    IF \E w \in diagram_keywords :
          Contains(Lower(filename), w) \/ Contains(Lower(alt_text), w)
    THEN "diagram"
    ELSE IF \E w \in photo_keywords :
               Contains(Lower(filename), w) \/ Contains(Lower(alt_text), w)
         THEN "photo"
         ELSE "image"

\* img_info of one <img> (336-345)
ImgInfo(base_url, img) ==
    [url |-> urljoin(base_url, img.src),
     filename |-> basename(img.src),
     alt_text |-> clean_text(img.alt),
     title |-> clean_text(img.title),
     type |-> classify_image_type(basename(img.src), img.alt)]

\* the loop of extract_images_and_diagrams (330-350) from the lists built so
\* far: an <img> without src is passed over, urljoin may raise, and each
\* img_info is appended to diagrams or to images at once
RECURSIVE ImagesLoop(_, _, _)
ImagesLoop(base_url, imgs, lists) ==
    IF imgs = <<>> THEN lists
    ELSE LET img == Head(imgs)
         IN IF img.src = <<>> THEN ImagesLoop(base_url, Tail(imgs), lists)
            ELSE IF urljoin_raises(img.src) THEN [lists EXCEPT !.raised = TRUE]
            ELSE LET info == ImgInfo(base_url, img)
                 IN ImagesLoop(base_url, Tail(imgs),
                       IF info.type = "diagram"
                       THEN [lists EXCEPT !.diagrams = Append(@, info)]
                       ELSE [lists EXCEPT !.images = Append(@, info)])

\* extract_images_and_diagrams(soup, base_url, invention_data) (326-350)
extract_images_and_diagrams(imgs, base_url) ==
    ImagesLoop(base_url, imgs, [images |-> <<>>, diagrams |-> <<>>, raised |-> FALSE])

\* --- extract_patent_info (367-384): the four patterns, matched as re does ---

\* the characters of [,.\s]
Separators == {",", "."} \cup Whitespace

\* the literal w (given in lower case) is at position p, case ignored
LitAt(t, p, w) ==
    /\ p + Len(w) - 1 <= Len(t)
    /\ Lower(SubSeq(t, p, p + Len(w) - 1)) = w

\* \s* from position p: the position after the run of whitespace
RECURSIVE SkipSpace(_, _)
SkipSpace(t, p) ==
    IF p <= Len(t) /\ t[p] \in Whitespace THEN SkipSpace(t, p + 1) ELSE p

\* \d{3} at position p
ThreeDigits(t, p) ==
    /\ p + 2 <= Len(t)
    /\ \A k \in p..(p + 2) : t[k] \in Digits

\* [,.\s]? from position p: a separator there is taken (without it the next
\* \d could not match)
SkipSeparator(t, p) ==
    IF p <= Len(t) /\ t[p] \in Separators THEN p + 1 ELSE p

\* [,.\s]?\d{3}[,.\s]?\d{3} from position p: the position after it, 0 if it
\* does not match
GroupsEnd(t, p) ==
    LET first == SkipSeparator(t, p)
        second == SkipSeparator(t, first + 3)
    IN IF ThreeDigits(t, first) /\ ThreeDigits(t, second) THEN second + 3 ELSE 0

\* (\d{1,2}[,.\s]?\d{3}[,.\s]?\d{3}) at position p: the position after the
\* group, 0 if it does not match; \d{1,2} is greedy, so two leading digits are
\* tried before one
NumberEnd(t, p) ==
    IF p + 1 <= Len(t) /\ t[p] \in Digits /\ t[p + 1] \in Digits /\ GroupsEnd(t, p + 2) # 0
    THEN GroupsEnd(t, p + 2)
    ELSE IF p <= Len(t) /\ t[p] \in Digits
         THEN GroupsEnd(t, p + 1)
         ELSE 0

Patent == <<"p", "a", "t", "e", "n", "t">>

\* where the number group of pattern i starts when the pattern matches at
\* position p, 0 if the part before the group does not match there
NumberStart(i, t, p) ==
    CASE i = 1 ->
           \* (?:US\s*)?Patent\s+(?:No\.?\s*)?
           LET word == IF LitAt(t, p, <<"u", "s">>) /\ LitAt(t, SkipSpace(t, p + 2), Patent)
                       THEN SkipSpace(t, p + 2)
                       ELSE p
               after == word + Len(Patent)
               gap == SkipSpace(t, after)
               dot == IF gap + 2 <= Len(t) /\ t[gap + 2] = "." THEN gap + 3 ELSE gap + 2
           IN IF ~LitAt(t, word, Patent) \/ gap = after THEN 0
              ELSE IF LitAt(t, gap, <<"n", "o">>) THEN SkipSpace(t, dot)
              ELSE gap
      [] i = 2 ->
           \* U\.S\.\s*Patent\s+
           LET word == SkipSpace(t, p + 4)
               after == word + Len(Patent)
           IN IF LitAt(t, p, <<"u", ".", "s", ".">>) /\ LitAt(t, word, Patent)
                    /\ SkipSpace(t, after) > after
              THEN SkipSpace(t, after)
              ELSE 0
      [] i = 3 ->
           \* Patent\s+#\s*
           LET after == p + Len(Patent)
               hash == SkipSpace(t, after)
           IN IF LitAt(t, p, Patent) /\ hash > after /\ LitAt(t, hash, <<"#">>)
              THEN SkipSpace(t, hash + 1)
              ELSE 0
      [] OTHER ->
           \* Pat\.\s*No\.\s*
           LET no == SkipSpace(t, p + 4)
           IN IF LitAt(t, p, <<"p", "a", "t", ".">>) /\ LitAt(t, no, <<"n", "o", ".">>)
              THEN SkipSpace(t, no + 3)
              ELSE 0

\* StripSeparators that leaves the match as it is
StripSeparatorsNot(match) == match

\* re.sub(r'[,.\s]', '', match)
StripSeparators(match) == SelectSeq(match, LAMBDA c : c \notin Separators)

\* re.findall(pattern i, text, re.IGNORECASE) from position p on, each match
\* cleaned: the leftmost match is taken and the search goes on after it
RECURSIVE FindAll(_, _, _)
FindAll(i, t, p) ==
    IF p > Len(t) THEN {}
    ELSE LET start == NumberStart(i, t, p)
             end == IF start = 0 THEN 0 ELSE NumberEnd(t, start)
         IN IF end # 0
            THEN {StripSeparators(SubSeq(t, start, end - 1))} \cup FindAll(i, t, end)
            ELSE FindAll(i, t, p + 1)

\* the set patents of extract_patent_info (376-382)
extract_patent_info(text) ==
    {c \in UNION {FindAll(i, text, 1) : i \in 1..4} : Len(c) >= 6}

\* --- the other sub-steps of extract_invention_content ---

\* sections of extract_structured_sections (290-314): per heading with a
\* non-empty cleaned text, the cleaned sibling texts longer than 10; a heading
\* without such a text is left out, a later heading of the same text replaces
\* an earlier one
RECURSIVE structured_sections(_)
structured_sections(headings) ==
    IF headings = <<>> THEN <<>>
    ELSE LET last == headings[Len(headings)]
             earlier == structured_sections(SubSeq(headings, 1, Len(headings) - 1))
             heading_text == clean_text(last.text)
             content == SelectSeq([k \in DOMAIN last.siblings |-> clean_text(last.siblings[k])],
                                  LAMBDA text : Len(text) > 10)
         IN IF heading_text # <<>> /\ content # <<>>
            THEN (heading_text :> content) @@ earlier
            ELSE earlier

\* tech_details of extract_structured_sections (317-324)
technical_details(paragraphs) ==
    SelectSeq([k \in DOMAIN paragraphs |-> clean_text(paragraphs[k])],
              LAMBDA text : Len(text) > 50)

\* references of extract_references (388-401)
references(anchors) ==
    LET cleaned == [k \in DOMAIN anchors |->
                       [url |-> anchors[k].href, text |-> clean_text(anchors[k].text)]]
    IN SelectSeq(cleaned, LAMBDA r : /\ r.url # <<>>
                                     /\ r.text # <<>>
                                     /\ StartsWith(r.url, <<"h", "t", "t", "p">>))

principle_keywords ==
    { <<"p", "r", "i", "n", "c", "i", "p", "l", "e">>,
      <<"t", "h", "e", "o", "r", "y">>,
      <<"m", "e", "c", "h", "a", "n", "i", "s", "m">>,
      <<"o", "p", "e", "r", "a", "t", "i", "o", "n">>,
      <<"w", "o", "r", "k", "i", "n", "g">>,
      <<"f", "u", "n", "c", "t", "i", "o", "n">>,
      <<"p", "r", "o", "c", "e", "s", "s">>,
      <<"m", "e", "t", "h", "o", "d">>,
      <<"t", "e", "c", "h", "n", "i", "q", "u", "e">>,
      <<"a", "p", "p", "r", "o", "a", "c", "h">> }

\* '\n\n'.join(texts)
RECURSIVE JoinParagraphs(_)
JoinParagraphs(texts) ==
    IF texts = <<>> THEN <<>>
    ELSE IF Len(texts) = 1 THEN texts[1]
    ELSE texts[1] \o <<"\n", "\n">> \o JoinParagraphs(Tail(texts))

\* extract_technical_principle (403-428) on the record built so far
extract_technical_principle(data) ==
    LET paragraphs == data.technical_details
        principle_paragraphs ==
            SelectSeq(paragraphs, LAMBDA text : ContainsAny(Lower(text), principle_keywords))
    IN IF principle_paragraphs # <<>>
       THEN [data EXCEPT !.principle = JoinParagraphs(Prefix(principle_paragraphs, 3))]
       ELSE IF paragraphs # <<>>
            THEN [data EXCEPT !.description = paragraphs[1]]
            ELSE data

----------------------------------------------------------------------------
(* The inputs of one invocation                                            *)

\* bound on the number of anchors of the index document
MaxAnchors == 2
\* bound on the -n / --max-pages argument
MaxPagesArg == 1

\* retries=3 of get_page
retries == 3
\* links[:10] of the dry-run listing
DisplayLimit == 10

\* anchors an index document is made of: [href, text]
AnchorPool ==
    { [href |-> <<"s", "u", "n", ".", "h", "t", "m", "l">>, text |-> <<"S", "o", "l", "a", "r", " ", "C", "a", "r">>],
      [href |-> <<"g", "a", "s", ".", "h", "t", "m", "l">>, text |-> <<"G", "a", "s", "-", "K", "i", "t">>],
      [href |-> <<"k", "i", "t", ".", "h", "t", "m", "l">>, text |-> <<"G", "a", "s", " ", "K", "i", "t">>],
      [href |-> <<"s", "u", "n", ".", "h", "t", "m", "l">>, text |-> <<"S", "u", "n", " ", "M", "o", "t", "o", "r">>],
      [href |-> <<"h", "o", "m", "e", ".", "h", "t", "m", "l">>, text |-> <<"H", "o", "m", "e">>] }

RECURSIVE SeqsUpTo(_, _)
SeqsUpTo(S, n) ==
    IF n = 0 THEN {<<>>}
    ELSE LET shorter == SeqsUpTo(S, n - 1)
         IN shorter \cup {Append(s, x) : s \in {t \in shorter : Len(t) = n - 1}, x \in S}

Documents == SeqsUpTo(AnchorPool, MaxAnchors)

\* --category: absent ("none") or one of the argparse choices (main.py 94-99);
\* two of the four choices are enumerated
CategoryArgs == {"none", "energy", "general"}

ArgsSet == [dry_run : BOOLEAN, category : CategoryArgs, max_pages : 0..MaxPagesArg]

----------------------------------------------------------------------------
(* State                                                                   *)

VARIABLES
    args,             \* the parsed command line (main.py 107-111)
    doc,              \* anchors of the index page the site serves
    pc,               \* position of the single thread of control
    exit_code,        \* status the process exits with once pc = "exited"
    runs,             \* number of calls of run_crawler so far
    gp,               \* the running get_page call: url, attempt, caller, result
    trace,            \* sleeps and requests of the running get_page call
    invention_links,  \* run_crawler's invention_links
    idx,              \* the loop variable i of run_crawler's for loop
    visited_urls,     \* self.visited_urls
    inventions_data,  \* self.inventions_data
    saved_files,      \* run_crawler's saved_files
    success_count,    \* run_crawler's success_count
    result,           \* what run_crawler returned
    disk,             \* the output directory: file name -> [state, url]
    log,              \* the error-level and the stop log records
    display_links,    \* the links the dry run lists
    fetchLog,         \* URLs crawl_invention_page called get_page for, in order
    interrupted,      \* where a KeyboardInterrupt was raised, "no" if none
    status,           \* per entry of invention_links, how far it got
    page,             \* the detail page extract_invention_content works on
    invention_data    \* the dict extract_invention_content builds and returns

vars == <<args, doc, pc, exit_code, runs, gp, trace, invention_links, idx,
          visited_urls, inventions_data, saved_files, success_count, result,
          disk, log, display_links, fetchLog, interrupted, status, page,
          invention_data>>

extractVars == <<page, invention_data>>

crawlVars == <<invention_links, idx, visited_urls, inventions_data, saved_files,
               success_count, disk, fetchLog, status>>

NoCall == [url |-> <<>>, attempt |-> 0, caller |-> "none", result |-> "none"]

NoResult == [kind |-> "unset", total_links |-> 0, successful_crawls |-> 0,
             saved_files |-> <<>>, failed_count |-> 0]

\* return None of run_crawler
NoneResult == [NoResult EXCEPT !.kind = "None"]

GetPagePcs == {"gp_delay", "gp_request", "gp_backoff", "gp_return"}

\* the statements inside the try of run_crawler's loop (lines 631-640)
InTry ==
    \/ pc \in {"crawl_page", "extract", "save_open", "save_write", "save_return", "count"}
    \/ pc \in GetPagePcs /\ gp.caller = "entry"

\* no page is being extracted
NoPage == [title |-> <<>>]
NoData == [name |-> <<>>]

\* the state of a process that has parsed its arguments and done nothing yet
Idle ==
    /\ pc = "main"
    /\ exit_code = 0
    /\ runs = 0
    /\ gp = NoCall
    /\ trace = <<>>
    /\ invention_links = <<>>
    /\ idx = 0
    /\ visited_urls = {}
    /\ inventions_data = <<>>
    /\ saved_files = <<>>
    /\ success_count = 0
    /\ result = NoResult
    /\ log = {}
    /\ display_links = <<>>
    /\ fetchLog = <<>>
    /\ interrupted = "no"
    /\ status = <<>>
    /\ invention_data = NoData

Init ==
    /\ args \in ArgsSet
    /\ doc \in Documents
    /\ disk = <<>>
    /\ page = NoPage
    /\ Idle

----------------------------------------------------------------------------
(* get_page(url, retries=3), run_crawler.py 92-118                          *)

\* entering get_page
CallGetPage(url, caller) ==
    /\ gp' = [url |-> url, attempt |-> 0, caller |-> caller, result |-> "pending"]
    /\ trace' = <<>>
    /\ pc' = "gp_delay"

\* line 96: time.sleep(random.uniform(*self.request_delay))
GetPageDelay ==
    /\ pc = "gp_delay"
    /\ trace' = Append(trace, [op |-> "delay", arg |-> 0])
    /\ pc' = "gp_request"
    /\ UNCHANGED <<args, doc, extractVars, exit_code, runs, gp, result, log, display_links,
                   interrupted, crawlVars>>

\* lines 98-109: the request succeeds and the parsed page is returned
GetPageRequestOk ==
    /\ pc = "gp_request"
    /\ trace' = Append(trace, [op |-> "get", arg |-> 1])
    /\ gp' = [gp EXCEPT !.result = "soup"]
    /\ pc' = "gp_return"
    /\ UNCHANGED <<args, doc, extractVars, exit_code, runs, result, log, display_links,
                   interrupted, crawlVars>>

\* lines 111-118: requests.RequestException; back off unless this was the last
\* attempt, and after the last attempt log the error and return None
GetPageRequestFail ==
    /\ pc = "gp_request"
    /\ trace' = Append(trace, [op |-> "get", arg |-> 0])
    /\ IF gp.attempt < retries - 1
       THEN /\ pc' = "gp_backoff"
            /\ UNCHANGED <<gp, log>>
       ELSE /\ gp' = [gp EXCEPT !.attempt = gp.attempt + 1, !.result = "None"]
            /\ log' = log \cup {[kind |-> "all_attempts_failed", what |-> gp.url]}
            /\ pc' = "gp_return"
    /\ UNCHANGED <<args, doc, extractVars, exit_code, runs, result, display_links,
                   interrupted, crawlVars>>

\* GetPageBackoff with `2 * attempt` written for `2 ** attempt`
GetPageBackoffLinear ==
    /\ pc = "gp_backoff"
    /\ trace' = Append(trace, [op |-> "sleep", arg |-> 2 * gp.attempt])
    /\ gp' = [gp EXCEPT !.attempt = gp.attempt + 1]
    /\ pc' = "gp_delay"
    /\ UNCHANGED <<args, doc, extractVars, exit_code, runs, result, log, display_links,
                   interrupted, crawlVars>>

\* line 115: time.sleep(2 ** attempt), then the next iteration of the for loop
GetPageBackoff ==
    /\ pc = "gp_backoff"
    /\ trace' = Append(trace, [op |-> "sleep", arg |-> 2 ^ gp.attempt])
    /\ gp' = [gp EXCEPT !.attempt = gp.attempt + 1]
    /\ pc' = "gp_delay"
    /\ UNCHANGED <<args, doc, extractVars, exit_code, runs, result, log, display_links,
                   interrupted, crawlVars>>

----------------------------------------------------------------------------
(* main.py: main() up to the call of run_crawler                           *)

\* lines 133-144: the full-crawl warning waits for Enter
MainStart ==
    /\ pc = "main"
    /\ pc' = IF args.max_pages = 0 /\ ~args.dry_run THEN "prompt" ELSE "setup"
    /\ UNCHANGED <<args, doc, extractVars, exit_code, runs, gp, trace, result, log,
                   display_links, interrupted, crawlVars>>

\* line 141: input() returns
PromptEnter ==
    /\ pc = "prompt"
    /\ pc' = "setup"
    /\ UNCHANGED <<args, doc, extractVars, exit_code, runs, gp, trace, result, log,
                   display_links, interrupted, crawlVars>>

\* lines 142-144: Ctrl+C at the prompt, main returns
PromptCancel ==
    /\ pc = "prompt"
    /\ interrupted' = "prompt"
    /\ pc' = "exited"
    /\ UNCHANGED <<args, doc, extractVars, exit_code, runs, gp, trace, result, log,
                   display_links, crawlVars>>

\* lines 148-154: the crawler is constructed; the dry run loads the index page
DryRunStart ==
    /\ pc = "setup"
    /\ args.dry_run
    /\ CallGetPage(default_base_url, "dry")
    /\ UNCHANGED <<args, doc, extractVars, exit_code, runs, result, log, display_links,
                   interrupted, crawlVars>>

\* [link for link in links if link['category'] == category]
RECURSIVE OfCategory(_, _)
OfCategory(links, category) ==
    IF links = <<>> THEN <<>>
    ELSE IF Head(links).category = category
         THEN <<Head(links)>> \o OfCategory(Tail(links), category)
         ELSE OfCategory(Tail(links), category)

\* lines 155-185: the dry run lists the links (those of --category when given),
\* or reports that the index page could not be loaded; either way main returns
DryRunReturn ==
    /\ pc = "gp_return"
    /\ gp.caller = "dry"
    \* get_page's locals end with the call; its url and result stay readable
    /\ gp' = [gp EXCEPT !.attempt = 0]
    /\ trace' = <<>>
    /\ IF gp.result = "soup"
       THEN LET links == extract_invention_links(doc)
            IN display_links' =
                  IF args.category # "none"
                  THEN Prefix(OfCategory(links, args.category), DisplayLimit)
                  ELSE Prefix(links, DisplayLimit)
       ELSE UNCHANGED display_links
    /\ pc' = "exited"
    /\ UNCHANGED <<args, doc, extractVars, exit_code, runs, result, log,
                   interrupted, crawlVars>>

\* lines 148-191: the crawler is constructed and run_crawler(max_pages) is called
CrawlStart ==
    /\ pc = "setup"
    /\ ~args.dry_run
    /\ pc' = "run_crawler"
    /\ UNCHANGED <<args, doc, extractVars, exit_code, runs, gp, trace, result, log,
                   display_links, interrupted, crawlVars>>

----------------------------------------------------------------------------
(* run_crawler(max_pages), run_crawler.py 584-661                           *)

\* lines 586-593: the output directory is created, the index page is requested
RunCrawlerStart ==
    /\ pc = "run_crawler"
    /\ runs' = runs + 1
    /\ CallGetPage(default_base_url, "index")
    /\ UNCHANGED <<args, doc, extractVars, exit_code, result, log, display_links,
                   interrupted, crawlVars>>

\* LimitLinks with the slice left out
LimitLinksAll(links, max_pages) == links

\* lines 610-612: invention_links[:max_pages] when max_pages > 0
LimitLinks(links, max_pages) ==
    IF max_pages > 0 THEN Prefix(links, max_pages) ELSE links

\* lines 594-623: no index page or no links end the run with None; otherwise
\* the links are limited and the loop state is set up
IndexReturn ==
    /\ pc = "gp_return"
    /\ gp.caller = "index"
    /\ gp' = [gp EXCEPT !.attempt = 0]
    /\ trace' = <<>>
    /\ IF gp.result # "soup"
       THEN /\ log' = log \cup {[kind |-> "index_failed", what |-> gp.url]}
            /\ result' = NoneResult
            /\ pc' = "returned"
            /\ UNCHANGED <<invention_links, idx, saved_files, success_count, status>>
       ELSE LET links == extract_invention_links(doc)
            IN IF links = <<>>
               THEN /\ result' = NoneResult
                    /\ pc' = "returned"
                    /\ UNCHANGED <<invention_links, idx, saved_files,
                                   success_count, status, log>>
               ELSE /\ invention_links' = LimitLinks(links, args.max_pages)
                    /\ saved_files' = <<>>
                    /\ success_count' = 0
                    /\ idx' = 1
                    /\ status' = [k \in 1..Len(invention_links') |-> "pending"]
                    /\ pc' = "loop"
                    /\ UNCHANGED <<result, log>>
    /\ UNCHANGED <<args, doc, extractVars, exit_code, runs, display_links,
                   interrupted, visited_urls, inventions_data, disk, fetchLog>>

\* lines 651-657
BuildResult ==
    [kind |-> "dict",
     total_links |-> Len(invention_links),
     successful_crawls |-> success_count,
     saved_files |-> saved_files,
     failed_count |-> Len(invention_links) - success_count]

\* lines 626-629: the next link is taken and the progress line is logged
LoopNext ==
    /\ pc = "loop"
    /\ idx <= Len(invention_links)
    /\ pc' = "crawl_page"
    /\ UNCHANGED <<args, doc, extractVars, exit_code, runs, gp, trace, result, log,
                   display_links, interrupted, crawlVars>>

\* lines 650-661: the loop is exhausted, the result is returned
LoopEnd ==
    /\ pc = "loop"
    /\ idx > Len(invention_links)
    /\ result' = BuildResult
    /\ pc' = "returned"
    /\ UNCHANGED <<args, doc, extractVars, exit_code, runs, gp, trace, log, display_links,
                   interrupted, crawlVars>>

\* IsVisited with the visited-set test left out
IsVisitedNever(url) == FALSE

\* line 570: url in self.visited_urls
IsVisited(url) == url \in visited_urls

\* crawl_invention_page lines 567-575: a visited URL returns None (the loop goes
\* on with the next link); otherwise the URL is marked and fetched
CrawlPage ==
    /\ pc = "crawl_page"
    /\ LET url == invention_links[idx].url
       IN IF IsVisited(url)
          THEN /\ status' = [status EXCEPT ![idx] = "skipped"]
               /\ idx' = idx + 1
               /\ pc' = "loop"
               /\ UNCHANGED <<visited_urls, fetchLog, gp, trace>>
          ELSE /\ visited_urls' = visited_urls \cup {url}
               /\ fetchLog' = Append(fetchLog, url)
               /\ status' = [status EXCEPT ![idx] = "fetching"]
               /\ CallGetPage(url, "entry")
               /\ UNCHANGED idx
    /\ UNCHANGED <<args, doc, extractVars, exit_code, runs, result, log, display_links,
                   interrupted, invention_links, inventions_data, saved_files,
                   success_count, disk>>

\* EntryReturn with the `if not soup: return None` test left out
EntryReturnExtractsAnyway ==
    /\ pc = "gp_return"
    /\ gp.caller = "entry"
    /\ gp' = [gp EXCEPT !.attempt = 0]
    /\ trace' = <<>>
    /\ status' = [status EXCEPT ![idx] = "extracting"]
    /\ pc' = "extract"
    /\ UNCHANGED <<args, doc, extractVars, exit_code, runs, result, log,
                   display_links, interrupted, invention_links, idx, visited_urls,
                   inventions_data, saved_files, success_count, disk, fetchLog>>

\* EntryReturn that hands a fetched page over and takes the next link at once,
\* without waiting for its extraction and write
EntryReturnNoWait ==
    /\ pc = "gp_return"
    /\ gp.caller = "entry"
    /\ gp' = [gp EXCEPT !.attempt = 0]
    /\ trace' = <<>>
    /\ status' = [status EXCEPT ![idx] =
                     IF gp.result # "soup" THEN "fetch_failed" ELSE "extracting"]
    /\ idx' = idx + 1
    /\ pc' = "loop"
    /\ UNCHANGED <<args, doc, extractVars, exit_code, runs, result, log,
                   display_links, interrupted, invention_links, visited_urls,
                   inventions_data, saved_files, success_count, disk, fetchLog>>

\* EntryReturn that takes the URL of a failed fetch out of visited_urls again
EntryReturnForgetsFailed ==
    /\ pc = "gp_return"
    /\ gp.caller = "entry"
    /\ gp' = [gp EXCEPT !.attempt = 0]
    /\ trace' = <<>>
    /\ IF gp.result # "soup"
       THEN /\ status' = [status EXCEPT ![idx] = "fetch_failed"]
            /\ visited_urls' = visited_urls \ {gp.url}
            /\ idx' = idx + 1
            /\ pc' = "loop"
       ELSE /\ status' = [status EXCEPT ![idx] = "extracting"]
            /\ pc' = "extract"
            /\ UNCHANGED <<idx, visited_urls>>
    /\ UNCHANGED <<args, doc, extractVars, exit_code, runs, result, log,
                   display_links, interrupted, invention_links,
                   inventions_data, saved_files, success_count, disk, fetchLog>>

\* crawl_invention_page lines 576-579: no page, no record; else extraction starts
EntryReturn ==
    /\ pc = "gp_return"
    /\ gp.caller = "entry"
    /\ gp' = [gp EXCEPT !.attempt = 0]
    /\ trace' = <<>>
    /\ IF gp.result # "soup"
       THEN /\ status' = [status EXCEPT ![idx] = "fetch_failed"]
            /\ idx' = idx + 1
            /\ pc' = "loop"
       ELSE /\ status' = [status EXCEPT ![idx] = "extracting"]
            /\ pc' = "extract"
            /\ UNCHANGED idx
    /\ UNCHANGED <<args, doc, extractVars, exit_code, runs, result, log,
                   display_links, interrupted, invention_links, visited_urls,
                   inventions_data, saved_files, success_count, disk, fetchLog>>

\* extract_invention_content (234-286) and lines 580-582, 634: the record is
\* built (a sub-step that raises is logged and leaves the later fields empty),
\* gets the link's category and is appended to inventions_data
Extract ==
    /\ pc = "extract"
    /\ \E raised \in BOOLEAN :
          LET link == invention_links[idx]
              record == [name |-> link.name, url |-> link.url,
                         category |-> link.category,
                         extraction |-> IF raised THEN "partial" ELSE "full"]
          IN /\ inventions_data' = Append(inventions_data, record)
             /\ log' = IF raised
                       THEN log \cup {[kind |-> "extract_error", what |-> link.url]}
                       ELSE log
    /\ status' = [status EXCEPT ![idx] = "writing"]
    /\ pc' = "save_open"
    /\ UNCHANGED <<args, doc, extractVars, exit_code, runs, gp, trace, result, display_links,
                   interrupted, invention_links, idx, visited_urls, saved_files,
                   success_count, disk, fetchLog>>

----------------------------------------------------------------------------
(* save_invention_file (430-563) and the rest of the loop body (637-640)   *)

\* the record being saved: the one just appended to inventions_data
CurrentRecord == inventions_data[Len(inventions_data)]

\* the output directory with file fn created or replaced
WithFile(fn, state, url) == (fn :> [state |-> state, url |-> url]) @@ disk

\* line 442: open(filepath, 'w') creates or truncates the file; when it raises,
\* the error is logged (560-563), None is returned and the loop goes on
SaveOpen ==
    /\ pc = "save_open"
    /\ LET fn == FileName(CurrentRecord.name)
       IN \/ /\ disk' = WithFile(fn, "partial", CurrentRecord.url)
             /\ pc' = "save_write"
             /\ UNCHANGED <<log, status, idx>>
          \/ /\ log' = log \cup {[kind |-> "save_failed", what |-> fn]}
             /\ status' = [status EXCEPT ![idx] = "write_failed"]
             /\ idx' = idx + 1
             /\ pc' = "loop"
             /\ UNCHANGED disk
    /\ UNCHANGED <<args, doc, extractVars, exit_code, runs, gp, trace, result, display_links,
                   interrupted, invention_links, visited_urls, inventions_data,
                   saved_files, success_count, fetchLog>>

\* lines 444-558: the sections and the trailing metadata block are written and
\* the file is closed; when a write raises, the file is closed as it is, the
\* error is logged (560-563), None is returned and the loop goes on
SaveWrite ==
    /\ pc = "save_write"
    /\ LET fn == FileName(CurrentRecord.name)
       IN \/ /\ disk' = WithFile(fn, "complete", CurrentRecord.url)
             /\ pc' = "save_return"
             /\ UNCHANGED <<log, status, idx>>
          \/ /\ log' = log \cup {[kind |-> "save_failed", what |-> fn]}
             /\ status' = [status EXCEPT ![idx] = "write_failed"]
             /\ idx' = idx + 1
             /\ pc' = "loop"
             /\ UNCHANGED disk
    /\ UNCHANGED <<args, doc, extractVars, exit_code, runs, gp, trace, result, display_links,
                   interrupted, invention_links, visited_urls, inventions_data,
                   saved_files, success_count, fetchLog>>

\* lines 637-639: the path comes back and is appended to saved_files
SaveReturn ==
    /\ pc = "save_return"
    /\ saved_files' = Append(saved_files, FileName(CurrentRecord.name))
    /\ pc' = "count"
    /\ UNCHANGED <<args, doc, extractVars, exit_code, runs, gp, trace, result, log,
                   display_links, interrupted, invention_links, idx, visited_urls,
                   inventions_data, success_count, disk, fetchLog, status>>

\* line 640: success_count += 1, and the loop goes on
CountSuccess ==
    /\ pc = "count"
    /\ success_count' = success_count + 1
    /\ status' = [status EXCEPT ![idx] = "written"]
    /\ idx' = idx + 1
    /\ pc' = "loop"
    /\ UNCHANGED <<args, doc, extractVars, exit_code, runs, gp, trace, result, log,
                   display_links, interrupted, invention_links, visited_urls,
                   inventions_data, saved_files, disk, fetchLog>>

----------------------------------------------------------------------------
(* KeyboardInterrupt                                                       *)

\* InterruptInTry with `continue` written for `break`
InterruptContinues ==
    /\ InTry
    /\ interrupted' = "try"
    /\ log' = log \cup {[kind |-> "stop", what |-> invention_links[idx].url]}
    /\ idx' = idx + 1
    /\ pc' = "loop"
    /\ UNCHANGED <<args, doc, extractVars, exit_code, runs, gp, trace, result, display_links,
                   invention_links, visited_urls, inventions_data, saved_files,
                   success_count, disk, fetchLog, status>>

\* lines 642-644 and 650-661: a KeyboardInterrupt raised inside the try passes
\* the `except requests.RequestException` and `except Exception` handlers of
\* get_page, extract_invention_content and save_invention_file (an open file
\* is closed as it is), is caught by the loop, logged, and the loop is left;
\* the result is built and returned
InterruptInTry ==
    /\ InTry
    /\ interrupted' = "try"
    /\ log' = log \cup {[kind |-> "stop", what |-> invention_links[idx].url]}
    /\ result' = BuildResult
    /\ pc' = "returned"
    /\ UNCHANGED <<args, doc, extractVars, exit_code, runs, gp, trace, display_links, crawlVars>>

\* main.py 279-290: a KeyboardInterrupt raised anywhere else after the crawler
\* was constructed reaches main's handler, which reports and calls sys.exit(0)
InterruptOutside ==
    /\ \/ pc \in {"run_crawler", "loop", "returned"}
       \/ pc \in GetPagePcs /\ gp.caller \in {"index", "dry"}
    /\ interrupted' = "main"
    /\ exit_code' = 0
    /\ pc' = "exited"
    /\ UNCHANGED <<args, doc, extractVars, runs, gp, trace, result, log, display_links, crawlVars>>

----------------------------------------------------------------------------
(* main.py 193-277: after run_crawler                                      *)

\* `if result:` - None is false, the result dict (never empty) is true
Truthy(r) == r.kind = "dict"

\* the summary is printed and main returns, or sys.exit(1) on a false result
MainFinish ==
    /\ pc = "returned"
    /\ exit_code' = IF Truthy(result) THEN 0 ELSE 1
    /\ pc' = "exited"
    /\ UNCHANGED <<args, doc, extractVars, runs, gp, trace, result, log, display_links,
                   interrupted, crawlVars>>

----------------------------------------------------------------------------

Next ==
    \/ MainStart
    \/ PromptEnter
    \/ PromptCancel
    \/ DryRunStart
    \/ DryRunReturn
    \/ CrawlStart
    \/ RunCrawlerStart
    \/ GetPageDelay
    \/ GetPageRequestOk
    \/ GetPageRequestFail
    \/ GetPageBackoff
    \/ IndexReturn
    \/ LoopNext
    \/ LoopEnd
    \/ CrawlPage
    \/ EntryReturn
    \/ Extract
    \/ SaveOpen
    \/ SaveWrite
    \/ SaveReturn
    \/ CountSuccess
    \/ InterruptInTry
    \/ InterruptOutside
    \/ MainFinish

Spec == Init /\ [][Next]_vars

----------------------------------------------------------------------------
(* The crawler used as an object: run_crawler called again on the same      *)
(* RexResearchCrawler, which keeps visited_urls and inventions_data (57-60) *)

\* bound on the number of run_crawler calls on one object
MaxRuns == 2

\* anchors of the index pages the object is run on: two entry URLs, one of
\* them named by two anchors, and a link the classifier rejects
ObjectPool == {a \in AnchorPool : a.text # <<"G", "a", "s", " ", "K", "i", "t">>}

InitObject ==
    /\ Init
    /\ ~args.dry_run
    /\ args.category = "none"
    /\ Range(doc) \subseteq ObjectPool

\* crawler.run_crawler(max_pages) right after the object was constructed
FirstCall ==
    /\ pc = "main"
    /\ pc' = "run_crawler"
    /\ UNCHANGED <<args, doc, extractVars, exit_code, runs, gp, trace, result, log,
                   display_links, interrupted, crawlVars>>

\* crawler.run_crawler(max_pages) again, after a call that returned: with a
\* result, with None, or with the result of a loop left at a KeyboardInterrupt
\* (642-644 catch it inside run_crawler)
Rerun ==
    /\ pc = "returned"
    /\ runs < MaxRuns
    /\ interrupted' = "no"
    \* the locals and the return value of the earlier call are gone; the
    \* object keeps visited_urls and inventions_data, the directory its files
    /\ invention_links' = <<>>
    /\ idx' = 0
    /\ saved_files' = <<>>
    /\ success_count' = 0
    /\ status' = <<>>
    /\ result' = NoResult
    /\ gp' = NoCall
    /\ trace' = <<>>
    /\ pc' = "run_crawler"
    /\ UNCHANGED <<args, doc, extractVars, exit_code, runs, log, display_links,
                   visited_urls, inventions_data, disk, fetchLog>>

NextObject ==
    \/ FirstCall
    \/ Rerun
    \/ RunCrawlerStart
    \/ GetPageDelay
    \/ GetPageRequestOk
    \/ GetPageRequestFail
    \/ GetPageBackoff
    \/ IndexReturn
    \/ LoopNext
    \/ LoopEnd
    \/ CrawlPage
    \/ EntryReturn
    \/ Extract
    \/ SaveOpen
    \/ SaveWrite
    \/ SaveReturn
    \/ CountSuccess
    \/ InterruptInTry

SpecObject == InitObject /\ [][NextObject]_vars

----------------------------------------------------------------------------
(* main.py started with --resume on an output directory that an earlier    *)
(* invocation left behind                                                  *)

\* the output directory after the records of links were saved, in order; a
\* file of an earlier invocation has the state "existing"
RECURSIVE OutputOf(_)
OutputOf(links) ==
    IF links = <<>> THEN <<>>
    ELSE LET last == links[Len(links)]
         IN (FileName(last.name) :> [state |-> "existing", url |-> last.url])
                @@ OutputOf(SubSeq(links, 1, Len(links) - 1))

\* --resume is given (main.py 101-105); the earlier invocation saved the first
\* n links of the same index page
InitResume ==
    /\ args \in {a @@ [resume |-> TRUE] : a \in {b \in ArgsSet : b.category = "none"}}
    /\ doc \in Documents
    /\ \E n \in 0..MaxAnchors :
          /\ n <= Len(extract_invention_links(doc))
          /\ disk = OutputOf(Prefix(extract_invention_links(doc), n))
    /\ page = NoPage
    /\ Idle

SpecResume == InitResume /\ [][Next]_vars

----------------------------------------------------------------------------
(* extract_invention_links on its own: the link classifier applied to an    *)
(* index document                                                          *)

\* n times the character c
Repeat(c, n) == [k \in 1..n |-> c]

\* the index page of the classifier scenario: Home, Cold Fusion Device, 123,
\* Solar Engine
ScenarioDocument ==
    << [href |-> <<"h", "o", "m", "e", ".", "h", "t", "m", "l">>, text |-> <<"H", "o", "m", "e">>],
       [href |-> <<"c", "f", "1", ".", "h", "t", "m", "l">>, text |-> <<"C", "o", "l", "d", " ", "F", "u", "s", "i", "o", "n", " ", "D", "e", "v", "i", "c", "e">>],
       [href |-> <<"x", ".", "h", "t", "m", "l">>, text |-> <<"1", "2", "3">>],
       [href |-> <<"s", "o", "l", "a", "r", ".", "h", "t", "m", "l">>, text |-> <<"S", "o", "l", "a", "r", " ", "E", "n", "g", "i", "n", "e">>] >>

\* anchors of index documents: accepted ones (two of them resolving to one
\* URL), a network-path href, and one anchor for each way of being rejected
ClassifierPool ==
    Range(ScenarioDocument) \cup
    { [href |-> <<"s", "u", "n", ".", "h", "t", "m", "l">>, text |-> <<"S", "o", "l", "a", "r", " ", "C", "a", "r">>],
      [href |-> <<".", "/", "s", "o", "l", "a", "r", ".", "h", "t", "m", "l">>, text |-> <<"S", "u", "n", " ", "M", "o", "t", "o", "r">>],
      [href |-> <<"h", "m", ".", "h", "t", "m", "l">>, text |-> <<"H", "e", "a", "l", "t", "h", " ", "M", "o", "t", "o", "r">>],
      [href |-> <<"/", "/", "e", "v", "i", "l", ".", "c", "o", "m", "/", "x", ".", "h", "t", "m", "l">>, text |-> <<"E", "v", "i", "l", " ", "K", "i", "t">>],
      [href |-> <<"n", ".", "h", "t", "m", "l">>, text |-> <<"[", "1", "]">>],
      [href |-> <<"p", ".", "h", "t", "m", "l">>, text |-> <<"(", "a", ")">>],
      [href |-> <<"a", "b", ".", "h", "t", "m", "l">>, text |-> <<"a", "b">>],
      [href |-> <<"k", "i", "t", ".", "h", "t", "m">>, text |-> <<"G", "a", "s", " ", "K", "i", "t">>],
      [href |-> <<"b", "p", ".", "h", "t", "m", "l">>, text |-> <<"B", "a", "c", "k", " ", "P", "a", "i", "n", " ", "C", "u", "r", "e">>],
      [href |-> <<"M", "y", "H", "o", "m", "e", ".", "h", "t", "m", "l">>, text |-> <<"G", "a", "s", " ", "K", "i", "t">>],
      [href |-> <<"e", ".", "h", "t", "m", "l">>, text |-> <<>>],
      [href |-> <<"l", "1", ".", "h", "t", "m", "l">>, text |-> Repeat("z", 199)],
      [href |-> <<"l", "2", ".", "h", "t", "m", "l">>, text |-> Repeat("z", 200)] }

ClassifierDocuments == SeqsUpTo(ClassifierPool, MaxAnchors) \cup {ScenarioDocument}

InitClassifier ==
    /\ args = [dry_run |-> FALSE, category |-> "none", max_pages |-> 0]
    /\ doc \in ClassifierDocuments
    /\ disk = <<>>
    /\ page = NoPage
    /\ Idle

\* line 599: invention_links = self.extract_invention_links(main_soup)
ExtractLinks ==
    /\ pc = "main"
    /\ invention_links' = extract_invention_links(doc)
    /\ pc' = "classified"
    /\ UNCHANGED <<args, doc, extractVars, exit_code, runs, gp, trace, idx,
                   visited_urls, inventions_data, saved_files, success_count,
                   result, disk, log, display_links, fetchLog, interrupted, status>>

NextClassifier == ExtractLinks

SpecClassifier == InitClassifier /\ [][NextClassifier]_vars

----------------------------------------------------------------------------
(* extract_invention_content on its own: one detail page, sub-step by       *)
(* sub-step (234-286), and lines 579-582 of crawl_invention_page            *)

\* bound on the number of <img> elements of a detail page
MaxImgs == 2

\* <img> elements: a diagram by file name, a diagram by alt text that also
\* has a photo keyword, a photo, one without src, one whose src urljoin
\* rejects, and one with a diagram keyword in its directory only
ImgPool ==
    { [src |-> <<"i", "m", "g", "/", "p", "l", "a", "n", ".", "g", "i", "f">>, alt |-> <<>>, title |-> <<"F", "i", "g", ".", " ", "1">>],
      [src |-> <<"p", "h", "o", "t", "o", "1", ".", "j", "p", "g">>, alt |-> <<"C", "i", "r", "c", "u", "i", "t", " ", "p", "h", "o", "t", "o">>, title |-> <<>>],
      [src |-> <<"a", ".", "j", "p", "g">>, alt |-> <<"a", " ", "p", "i", "c", "t", "u", "r", "e">>, title |-> <<>>],
      [src |-> <<>>, alt |-> <<"d", "i", "a", "g", "r", "a", "m">>, title |-> <<>>],
      [src |-> <<"/", "/", "[", "x", "/", "p", "l", "a", "n", ".", "g", "i", "f">>, alt |-> <<>>, title |-> <<>>],
      [src |-> <<"d", "i", "a", "g", "r", "a", "m", "s", "/", "b", ".", "p", "n", "g">>, alt |-> <<>>, title |-> <<>>] }

\* the visible text of a page, soup.get_text(separator='\n', strip=True)
ScenarioText == <<"s", "e", "e", " ", "U", "S", " ", "P", "a", "t", "e", "n", "t", " ", "N", "o", ".", " ", "5", ",", "1", "2", "3", ",", "4", "5", "6", ".">>

TextPool ==
    { ScenarioText,
      <<"P", "a", "t", "e", "n", "t", " ", "1", "2", "3", "4", "5", "6", "7", ",", " ", "U", ".", "S", ".", " ", "P", "a", "t", "e", "n", "t", " ", "1", ",", "2", "3", "4", ",", "5", "6", "7", " ", "a", "n", "d", " ", "P", "a", "t", ".", " ", "N", "o", ".", " ", "1", "2", ".", "3", "4", "5", ".", "6", "7", "8">>,
      <<"P", "a", "t", "e", "n", "t", " ", "1", "2", "3", "4", "5", "6">> }

LongParagraph(start) == start \o Repeat("x", 50)

\* what a page has besides its text and images: title, meta description,
\* headings with their sibling texts, paragraphs and anchors
PageShells ==
    { [has_title |-> TRUE, title |-> <<" ", " ", "S", "u", "n", " ", "&", "a", "m", "p", ";", " ", "M", "o", "t", "o", "r", " ">>,
       has_meta |-> TRUE, meta |-> <<"a", " ", "c", "a", "r", " ", "t", "h", "a", "t", " ", "r", "u", "n", "s", " ", "o", "n", " ", "l", "i", "g", "h", "t">>,
       headings |-> << [text |-> <<"T", "h", "e", "o", "r", "y">>, siblings |-> <<<<"s", "h", "o", "r", "t">>, <<"a", " ", "f", "r", "a", "g", "m", "e", "n", "t", " ", "o", "f", " ", "t", "e", "x", "t">>>>],
                       [text |-> <<"E", "m", "p", "t", "y">>, siblings |-> <<<<"t", "i", "n", "y">>>>] >>,
       paragraphs |-> << LongParagraph(<<"w", "o", "r", "k", "i", "n", "g", " ">>), LongParagraph(<<"p", "l", "a", "i", "n", " ">>) >>,
       anchors |-> << [href |-> <<"h", "t", "t", "p", ":", "/", "/", "a", ".", "b", "/", "c", ".", "h", "t", "m", "l">>, text |-> <<" ", "R", "e", "f", " ">>],
                      [href |-> <<"x", ".", "h", "t", "m", "l">>, text |-> <<"L", "o", "c", "a", "l">>] >>],
      [has_title |-> FALSE, title |-> <<>>,
       has_meta |-> FALSE, meta |-> <<>>,
       headings |-> <<>>,
       paragraphs |-> << <<"s", "h", "o", "r", "t">>, LongParagraph(<<"p", "l", "a", "i", "n", " ">>) >>,
       anchors |-> <<>>] }

\* the link the page belongs to
PageLink == MakeLink(<<"s", "u", "n", ".", "h", "t", "m", "l">>, <<"S", "o", "l", "a", "r", " ", "C", "a", "r">>)

Pages ==
    { [link |-> PageLink, shell |-> shell, text |-> text, imgs |-> imgs] :
         shell \in PageShells, text \in TextPool, imgs \in SeqsUpTo(ImgPool, MaxImgs) }

InitExtractor ==
    /\ args = [dry_run |-> FALSE, category |-> "none", max_pages |-> 0]
    /\ doc = <<>>
    /\ disk = <<>>
    /\ page \in Pages
    /\ Idle

\* the statements of the try block, in order
SubSteps == <<"x_title", "x_meta", "x_full_content", "x_sections", "x_images",
              "x_patents", "x_references", "x_principle">>

\* lines 236-250: the dict with its defaults
DefaultData(url, name) ==
    [name |-> name, url |-> url, extracted_at |-> "now",
     title |-> <<>>, description |-> <<>>, principle |-> <<>>,
     technical_details |-> <<>>, patents |-> <<>>, images |-> <<>>,
     diagrams |-> <<>>, references |-> <<>>, full_content |-> <<>>,
     structured_sections |-> <<>>]

extractorFrame == <<args, doc, page, exit_code, runs, gp, trace, result,
                    display_links, interrupted, crawlVars>>

\* lines 579, 236-250: extract_invention_content is entered
ExtractEnter ==
    /\ pc = "main"
    /\ invention_data' = DefaultData(page.link.url, page.link.name)
    /\ pc' = SubSteps[1]
    /\ UNCHANGED <<extractorFrame, log>>

\* lines 254-256
ExtractTitle ==
    /\ pc = "x_title"
    /\ invention_data' = IF page.shell.has_title
                         THEN [invention_data EXCEPT !.title = clean_text(page.shell.title)]
                         ELSE invention_data
    /\ pc' = "x_meta"
    /\ UNCHANGED <<extractorFrame, log>>

\* lines 259-261: the key meta_description is added when the page has the tag
ExtractMeta ==
    /\ pc = "x_meta"
    /\ invention_data' = IF page.shell.has_meta
                         THEN [meta_description |-> page.shell.meta] @@ invention_data
                         ELSE invention_data
    /\ pc' = "x_full_content"
    /\ UNCHANGED <<extractorFrame, log>>

\* lines 264-265
ExtractFullContent ==
    /\ pc = "x_full_content"
    /\ invention_data' = [invention_data EXCEPT !.full_content = clean_text(page.text)]
    /\ pc' = "x_sections"
    /\ UNCHANGED <<extractorFrame, log>>

\* line 268: extract_structured_sections
ExtractSections ==
    /\ pc = "x_sections"
    /\ invention_data' =
          [invention_data EXCEPT
              !.structured_sections = structured_sections(page.shell.headings),
              !.technical_details = technical_details(page.shell.paragraphs)]
    /\ pc' = "x_images"
    /\ UNCHANGED <<extractorFrame, log>>

\* lines 283-284: the error record of the except clause
ExtractError == [kind |-> "extract_error", what |-> page.link.url]

\* line 271: extract_images_and_diagrams appends to the two lists of the dict
\* as it goes; when urljoin raises, what was appended stays, the except clause
\* logs and the dict is returned
ExtractImages ==
    /\ pc = "x_images"
    /\ LET lists == extract_images_and_diagrams(page.imgs, page.link.url)
       IN /\ invention_data' = [invention_data EXCEPT !.images = lists.images,
                                                      !.diagrams = lists.diagrams]
          /\ IF lists.raised
             THEN /\ log' = log \cup {ExtractError}
                  /\ pc' = "x_return"
             ELSE /\ pc' = "x_patents"
                  /\ UNCHANGED log
    /\ UNCHANGED extractorFrame

\* line 274 and 384: list(patents) lists the set in some order
ExtractPatents ==
    /\ pc = "x_patents"
    /\ LET patents == extract_patent_info(page.text)
       IN \E order \in [1..Cardinality(patents) -> patents] :
             /\ Range(order) = patents
             /\ invention_data' = [invention_data EXCEPT !.patents = order]
    /\ pc' = "x_references"
    /\ UNCHANGED <<extractorFrame, log>>

\* line 277
ExtractReferences ==
    /\ pc = "x_references"
    /\ invention_data' = [invention_data EXCEPT !.references = references(page.shell.anchors)]
    /\ pc' = "x_principle"
    /\ UNCHANGED <<extractorFrame, log>>

\* line 280
ExtractPrinciple ==
    /\ pc = "x_principle"
    /\ invention_data' = extract_technical_principle(invention_data)
    /\ pc' = "x_return"
    /\ UNCHANGED <<extractorFrame, log>>

\* lines 282-284: a sub-step raises an Exception before it has assigned
\* anything (a RecursionError of the parser on a deeply nested page, a
\* MemoryError); the except clause logs it
SubStepRaises ==
    /\ pc \in Range(SubSteps)
    /\ log' = log \cup {ExtractError}
    /\ pc' = "x_return"
    /\ UNCHANGED <<extractorFrame, invention_data>>

\* lines 286, 580-582: the dict is returned and gets the link's category
ExtractReturn ==
    /\ pc = "x_return"
    /\ invention_data' = [category |-> page.link.category] @@ invention_data
    /\ pc' = "extracted"
    /\ UNCHANGED <<extractorFrame, log>>

NextExtractor ==
    \/ ExtractEnter
    \/ ExtractTitle
    \/ ExtractMeta
    \/ ExtractFullContent
    \/ ExtractSections
    \/ ExtractImages
    \/ ExtractPatents
    \/ ExtractReferences
    \/ ExtractPrinciple
    \/ SubStepRaises
    \/ ExtractReturn

SpecExtractor == InitExtractor /\ [][NextExtractor]_vars

----------------------------------------------------------------------------
(* Auxiliary definitions of the properties                                 *)

NoDuplicates(s) == \A a, b \in 1..Len(s) : a # b => s[a] # s[b]

RecordUrls == [k \in 1..Len(inventions_data) |-> inventions_data[k].url]

\* URLs that own a file of the output directory
FileUrls == {disk[f].url : f \in DOMAIN disk}

\* entries the loop is done with
FinalStatus == {"skipped", "fetch_failed", "write_failed", "written"}

\* get_page gave up on the URL of entry k (line 117 was logged for it)
FetchGaveUp(k) == [kind |-> "all_attempts_failed", what |-> invention_links[k].url] \in log

----------------------------------------------------------------------------
(* Properties                                                              *)

\* C1: no two records of inventions_data have the same url, and
\* crawl_invention_page calls get_page for a URL at most once - within a run,
\* and also over several runs of the same crawler object.
C1_UrlProcessedAtMostOnce ==
    /\ NoDuplicates(RecordUrls)
    /\ NoDuplicates(fetchLog)

\* C1 witness: the index page named one URL in two accepted anchors, the URL
\* was fetched and recorded, and a second run on the object met it again
C1_Witness ==
    /\ pc = "returned"
    /\ runs = 2
    /\ Len(CandidateLinks(doc)) > Len(extract_invention_links(doc))
    /\ Len(inventions_data) >= 1
    /\ \E k \in DOMAIN status : status[k] = "skipped"

\* C2: once get_page has given up on an entry's URL (three failed attempts,
\* the error logged), the entry has no record and no file, the loop is past it
\* unless the user interrupted, and a run that was not interrupted returns a
\* result with every later entry attempted.
C2_FetchFailureSkipsEntry ==
    \A k \in DOMAIN status :
        (FetchGaveUp(k) /\ ~(pc = "gp_return" /\ idx = k)) =>
            /\ invention_links[k].url \notin Range(RecordUrls)
            /\ invention_links[k].url \notin FileUrls
            /\ idx > k \/ interrupted # "no"
            /\ (pc \in {"returned", "exited"} /\ interrupted = "no") =>
                  /\ result.kind = "dict"
                  /\ \A j \in DOMAIN status : j > k => status[j] \in FinalStatus

\* C2 witness: the first entry's fetch failed three times and the second entry
\* was then fetched and written
C2_Witness ==
    /\ Len(invention_links) >= 2
    /\ FetchGaveUp(1)
    /\ status[1] = "fetch_failed"
    /\ status[2] = "written"

\* C3: when the index page cannot be loaded (and the user did not interrupt),
\* no entry page was fetched, no file was written and the process exits with a
\* non-zero status - in the crawl and in the dry run alike.
C3_IndexFailureExitsNonZero ==
    (pc = "exited" /\ interrupted = "no"
        /\ gp.caller \in {"index", "dry"} /\ gp.result = "None") =>
            /\ fetchLog = <<>>
            /\ DOMAIN disk = {}
            /\ exit_code # 0

\* C4: a crawl that exits with status zero has produced at least one record or
\* was interrupted by the user.
C4_ZeroExitNeedsARecord ==
    (pc = "exited" /\ ~args.dry_run /\ exit_code = 0) =>
        \/ Len(inventions_data) >= 1
        \/ interrupted # "no"

\* C5: a KeyboardInterrupt ends the run where it is: run_crawler has returned
\* or the process has exited, no entry after the current one was started or
\* fetched, and the exit status is zero.
C5_InterruptStopsBeforeNextEntry ==
    interrupted # "no" =>
        /\ pc \in {"returned", "exited"}
        /\ \A j \in DOMAIN status :
              j > idx => /\ status[j] = "pending"
                         /\ invention_links[j].url \notin Range(fetchLog)
        /\ pc = "exited" => exit_code = 0

\* C5 witness: interrupted during the write of the first of two entries; the
\* process has exited and the second entry was never fetched
C5_Witness ==
    /\ interrupted = "try"
    /\ pc = "exited"
    /\ Len(invention_links) = 2
    /\ status[1] = "writing"
    /\ Len(fetchLog) = 1

\* C6: when a crawl has stopped (interrupted or not) and no write failed, the
\* output directory holds exactly one file per completed entry and every file
\* is complete.
C6_OnlyCompleteFilesOnDisk ==
    (pc = "exited" /\ ~args.dry_run
        /\ \A k \in DOMAIN status : status[k] # "write_failed") =>
        /\ Cardinality(DOMAIN disk) = success_count
        /\ \A f \in DOMAIN disk : disk[f].state = "complete"

\* C7: an entry whose write failed has the error logged, its path is not in
\* saved_files, it is not counted, no file of it is on disk, and the loop is
\* past it.
C7_FailedWriteLeavesNothing ==
    \A k \in DOMAIN status :
        status[k] = "write_failed" =>
            /\ [kind |-> "save_failed", what |-> FileName(invention_links[k].name)] \in log
            /\ FileName(invention_links[k].name) \notin Range(saved_files)
            /\ success_count < k
            /\ invention_links[k].url \notin FileUrls
            /\ idx > k

\* the link URLs of the entries that were fetched, in link order
RECURSIVE FetchedUrls(_)
FetchedUrls(k) ==
    IF k = 0 THEN <<>>
    ELSE IF status[k] \in {"pending", "skipped"}
         THEN FetchedUrls(k - 1)
         ELSE Append(FetchedUrls(k - 1), invention_links[k].url)

\* C8: entries are processed one at a time in link order: an entry is started
\* only when every earlier one is finished (written, failed or skipped), only
\* the current entry is in progress, the fetches happened in link order, and a
\* file exists only for an entry whose record has been extracted and appended.
C8_SequentialInOrder ==
    /\ \A k \in DOMAIN status :
          /\ status[k] # "pending" => \A j \in 1..(k - 1) : status[j] \in FinalStatus
          /\ status[k] \notin FinalStatus \cup {"pending"} => k = idx
    /\ fetchLog = FetchedUrls(Len(status))
    /\ FileUrls \subseteq Range(RecordUrls)

\* C8 witness: the first entry is written and the second is being fetched
C8_Witness ==
    /\ Len(invention_links) = 2
    /\ status[1] = "written"
    /\ status[2] = "fetching"
    /\ pc = "gp_request"

Delay == [op |-> "delay", arg |-> 0]
GetOk == [op |-> "get", arg |-> 1]
GetFailed == [op |-> "get", arg |-> 0]
Sleep(n) == [op |-> "sleep", arg |-> n]

\* what get_page may have done when it returns a page
SuccessTraces ==
    { <<Delay, GetOk>>,
      <<Delay, GetFailed, Sleep(1), Delay, GetOk>>,
      <<Delay, GetFailed, Sleep(1), Delay, GetFailed, Sleep(2), Delay, GetOk>> }

\* what get_page has done when it returns None
FailureTrace ==
    <<Delay, GetFailed, Sleep(1), Delay, GetFailed, Sleep(2), Delay, GetFailed>>

C9_ReturnShape ==
    /\ Len(trace) <= Len(FailureTrace)
    /\ pc = "gp_return" =>
          \/ gp.result = "soup" /\ trace \in SuccessTraces
          \/ gp.result = "None" /\ trace = FailureTrace

C9_RetryIsLocal ==
    (pc \in {"gp_delay", "gp_request", "gp_backoff"} /\ pc' \in GetPagePcs) =>
        /\ gp'.url = gp.url
        /\ gp'.caller = gp.caller
        /\ UNCHANGED <<runs, crawlVars>>

\* C9: get_page makes between one and three requests, each preceded by the
\* delay; it returns the page at the first request that succeeds and None after
\* the third failure, sleeping 1 s and then 2 s between failed attempts and not
\* after the last; while it retries, the URL, the run and the crawl state stay
\* as they are.
C9_GetPageBoundedRetries == []C9_ReturnShape /\ [][C9_RetryIsLocal]_vars

\* C9 witness: get_page returns the page at its third request
C9_Witness ==
    /\ pc = "gp_return"
    /\ gp.result = "soup"
    /\ Len(trace) = 8

\* C10: with --category given, every entry the crawl starts, and every file it
\* writes, belongs to a link of that category.
C10_OnlySelectedCategory ==
    (args.category # "none" /\ ~args.dry_run) =>
        /\ \A k \in DOMAIN status :
              status[k] # "pending" => invention_links[k].category = args.category
        /\ \A k \in DOMAIN inventions_data :
              inventions_data[k].url \in FileUrls =>
                  inventions_data[k].category = args.category

\* the first min(n, number of links) links, all of them for n = 0
C11_FirstLinks(links, n) ==
    [k \in 1..(IF n > 0 /\ n < Len(links) THEN n ELSE Len(links)) |-> links[k]]

\* C11: when the loop is set up, invention_links is the first min(n, number of
\* classified links) links of the classifier's output in its order (all of
\* them for n = 0); only URLs of invention_links are ever fetched; when the run
\* has returned a result, invention_links is still that prefix and total_links
\* is its length, and a run that was not interrupted has fetched each of its
\* links, in that order.
C11_LimitIsPrefix ==
    /\ status # <<>> =>
          Range(fetchLog) \subseteq {invention_links[k].url : k \in DOMAIN invention_links}
    /\ (status # <<>> /\ ((pc = "loop" /\ idx = 1) \/ pc = "returned")) =>
          LET first == C11_FirstLinks(extract_invention_links(doc), args.max_pages)
          IN /\ invention_links = first
             /\ result.kind = "dict" => result.total_links = Len(first)
             /\ (result.kind = "dict" /\ interrupted = "no") =>
                   fetchLog = [k \in 1..Len(first) |-> first[k].url]

\* C11 witness: the index page has two classified links, the limit is 1, and
\* the run returned after fetching the first link only
C11_Witness ==
    /\ pc = "returned"
    /\ interrupted = "no"
    /\ args.max_pages = 1
    /\ result.kind = "dict"
    /\ result.total_links = 1
    /\ Len(fetchLog) = 1
    /\ Len(extract_invention_links(doc)) = 2

\* C12: run_crawler returns None, and a crawl exits with a non-zero status,
\* only when the index page could not be loaded (get_page gave up on it); an
\* index page that was loaded never ends the run as a failure, whatever its
\* links and whatever happens to its entries.
C12_OnlyIndexFailureIsFatal ==
    /\ result.kind = "None" => (gp.caller = "index" /\ gp.result = "None")
    /\ (pc = "exited" /\ exit_code # 0) =>
          [kind |-> "index_failed", what |-> default_base_url] \in log

\* files the earlier invocation left that nothing has written to since
C13_Existing == {f \in DOMAIN disk : disk[f].state = "existing"}

\* no entry whose file exists is fetched, and the others are all attempted
C13_ExistingNotFetched ==
    args.resume =>
        /\ \A f \in C13_Existing : disk[f].url \notin Range(fetchLog)
        /\ (pc = "returned" /\ interrupted = "no" /\ result.kind = "dict") =>
              \A k \in DOMAIN status : status[k] \in FinalStatus

\* no step writes to a file that exists
C13_ExistingNotRewritten ==
    args.resume => \A f \in C13_Existing : disk'[f] = disk[f]

\* C13: with --resume, an entry whose output file already exists is not
\* fetched and its file is not written again, and the crawl goes on with the
\* remaining entries.
C13_ResumeSkipsExistingFiles ==
    []C13_ExistingNotFetched /\ [][C13_ExistingNotRewritten]_vars

\* C14: every link extract_invention_links returns has a url that starts with
\* the base domain and an href that ends with ".html".
C14_LinksOnBaseDomain ==
    pc = "classified" =>
        \A k \in DOMAIN invention_links :
            /\ StartsWith(invention_links[k].url, base_domain)
            /\ EndsWith(invention_links[k].href, DotHtml)

\* anchor k of the document was appended by the first loop
C15_Accepted(k) ==
    /\ doc[k].href # <<>>
    /\ doc[k].text # <<>>
    /\ is_invention_link(doc[k].href, doc[k].text)

\* anchor k is the first accepted anchor of the document with its resolved URL
C15_FirstOccurrence(k) ==
    /\ C15_Accepted(k)
    /\ \A j \in 1..(k - 1) :
          C15_Accepted(j) => urljoin(base_domain, doc[j].href) # urljoin(base_domain, doc[k].href)

\* name, url and category of the first occurrences among anchors 1..k, in
\* document order
RECURSIVE C15_FirstOccurrences(_)
C15_FirstOccurrences(k) ==
    IF k = 0 THEN <<>>
    ELSE IF C15_FirstOccurrence(k)
         THEN Append(C15_FirstOccurrences(k - 1),
                     [name |-> doc[k].text, url |-> urljoin(base_domain, doc[k].href),
                      category |-> get_link_category(doc[k].text)])
         ELSE C15_FirstOccurrences(k - 1)

\* C15: extract_invention_links returns no two links with the same url; the
\* link of a URL is the one of its first accepted anchor (that anchor's name
\* and category), and the links are in the document order of those anchors.
C15_FirstOccurrenceWins ==
    pc = "classified" =>
        /\ NoDuplicates([k \in DOMAIN invention_links |-> invention_links[k].url])
        /\ [k \in DOMAIN invention_links |->
               [name |-> invention_links[k].name, url |-> invention_links[k].url,
                category |-> invention_links[k].category]]
           = C15_FirstOccurrences(Len(doc))

\* C15 witness: two accepted anchors resolve to one URL with different names
\* and categories; the one link returned has the name of the first
C15_Witness ==
    /\ pc = "classified"
    /\ Len(doc) = 2
    /\ C15_Accepted(1) /\ C15_Accepted(2)
    /\ doc[1].text # doc[2].text
    /\ get_link_category(doc[1].text) # get_link_category(doc[2].text)
    /\ Len(invention_links) = 1
    /\ invention_links[1].name = doc[1].text

\* the acceptance conditions on one anchor
C16_Conditions(href, text) ==
    /\ \A p \in exclude_patterns : ~Contains(Lower(href), p)
    /\ \A t \in exclude_texts : ~Contains(Lower(text), t)
    /\ EndsWith(href, <<".", "h", "t", "m", "l">>)
    /\ 2 < Len(text) /\ Len(text) < 200
    /\ \E k \in 1..Len(text) : text[k] \notin Digits
    /\ text[1] \notin {"[", "("}

\* C16: a URL is among the links returned exactly when some anchor with
\* non-empty href and text that resolves to it meets the acceptance
\* conditions, and every link returned has the name and href of such an
\* anchor; the scenario document (Home, Cold Fusion Device, 123, Solar Engine)
\* yields exactly Cold Fusion Device (general) and Solar Engine (energy).
C16_AcceptedIffConditions ==
    pc = "classified" =>
        /\ \A k \in DOMAIN doc :
              (doc[k].href # <<>> /\ doc[k].text # <<>>) =>
                 ( (\E j \in DOMAIN doc :
                       /\ doc[j].href # <<>> /\ doc[j].text # <<>>
                       /\ urljoin(base_domain, doc[j].href) = urljoin(base_domain, doc[k].href)
                       /\ C16_Conditions(doc[j].href, doc[j].text))
                   <=> (\E i \in DOMAIN invention_links :
                           invention_links[i].url = urljoin(base_domain, doc[k].href)) )
        /\ \A i \in DOMAIN invention_links :
              \E k \in DOMAIN doc :
                 /\ doc[k].href = invention_links[i].href
                 /\ doc[k].text = invention_links[i].name
                 /\ C16_Conditions(doc[k].href, doc[k].text)
        /\ doc = ScenarioDocument =>
              [i \in DOMAIN invention_links |->
                  <<invention_links[i].name, invention_links[i].category>>]
              = << <<ScenarioDocument[2].text, "general">>,
                   <<ScenarioDocument[4].text, "energy">> >>

\* C16 witness: the scenario document was classified and gave two links
C16_Witness ==
    /\ pc = "classified"
    /\ doc = ScenarioDocument
    /\ Len(invention_links) = 2

\* the lower-cased text contains a keyword of the group
C20_Has(text, keywords) == \E w \in keywords : Contains(Lower(text), w)

\* C20: every link has exactly one category: energy when its lower-cased name
\* contains an energy keyword (whatever else it contains), otherwise medical
\* when it contains a medical keyword (also with a transport keyword),
\* otherwise transport when it contains a transport keyword, and general when
\* it contains no keyword of any group.
C20_CategoryByGroupOrder ==
    pc = "classified" =>
        \A k \in DOMAIN invention_links :
            LET text == invention_links[k].name
                category == invention_links[k].category
            IN /\ category \in Categories
               /\ C20_Has(text, energy_keywords) => category = "energy"
               /\ (~C20_Has(text, energy_keywords) /\ C20_Has(text, medical_keywords)) =>
                     category = "medical"
               /\ (~C20_Has(text, energy_keywords) /\ ~C20_Has(text, medical_keywords)
                      /\ C20_Has(text, transport_keywords)) => category = "transport"
               /\ (~C20_Has(text, energy_keywords) /\ ~C20_Has(text, medical_keywords)
                      /\ ~C20_Has(text, transport_keywords)) => category = "general"

\* C20 witness: a name with an energy and a transport keyword was categorised
\* energy and a name with a medical and a transport keyword medical
C20_Witness ==
    /\ pc = "classified"
    /\ \E k \in DOMAIN invention_links :
          /\ C20_Has(invention_links[k].name, energy_keywords)
          /\ C20_Has(invention_links[k].name, transport_keywords)
          /\ invention_links[k].category = "energy"
    /\ \E k \in DOMAIN invention_links :
          /\ C20_Has(invention_links[k].name, medical_keywords)
          /\ C20_Has(invention_links[k].name, transport_keywords)
          /\ invention_links[k].category = "medical"

\* the <img> elements of the page that have a src, in document order
C17_WithSrc == SelectSeq(page.imgs, LAMBDA img : img.src # <<>>)

\* the file name or the alt text of the <img> contains a diagram keyword
C17_HasDiagramKeyword(img) ==
    \E w \in diagram_keywords :
        Contains(Lower(basename(img.src)), w) \/ Contains(Lower(img.alt), w)

\* url and file name of each <img> of a sequence
C17_Refs(imgs) ==
    [k \in DOMAIN imgs |-> <<urljoin(page.link.url, imgs[k].src), basename(imgs[k].src)>>]

\* the image sub-step has completed
C17_ImagesDone ==
    \/ pc \in {"x_patents", "x_references", "x_principle"}
    \/ pc \in {"x_return", "extracted"} /\ log = {}

C18_PatentsDone ==
    \/ pc \in {"x_references", "x_principle"}
    \/ pc \in {"x_return", "extracted"} /\ log = {}

\* C18: patents never has an element twice, every element is digits only and
\* at least 6 long, and the page whose text is "see US Patent No. 5,123,456."
\* gets exactly the one element 5123456.
C18_PatentsAreCleanNumbers ==
    pc # "main" =>
        /\ NoDuplicates(invention_data.patents)
        /\ \A k \in DOMAIN invention_data.patents :
              /\ IsDigitStr(invention_data.patents[k])
              /\ Len(invention_data.patents[k]) >= 6
        /\ (C18_PatentsDone /\ page.text = ScenarioText) =>
              invention_data.patents = << <<"5", "1", "2", "3", "4", "5", "6">> >>

\* C18 witness: the scenario page was extracted and has its one patent
C18_Witness ==
    /\ pc = "extracted"
    /\ page.text = ScenarioText
    /\ Len(invention_data.patents) = 1

\* the keys of the dict of lines 236-250
C19_Fields ==
    {"name", "url", "extracted_at", "title", "description", "principle",
     "technical_details", "patents", "images", "diagrams", "references",
     "full_content", "structured_sections"}

\* every field a sub-step fills is empty or as the completed sub-step leaves
\* it; the image sub-step cannot complete on a page with a src urljoin rejects
C19_EmptyOrComplete ==
    /\ invention_data.title \in {<<>>, clean_text(page.shell.title)}
    /\ invention_data.full_content \in {<<>>, clean_text(page.text)}
    /\ \/ /\ invention_data.structured_sections = <<>>
          /\ invention_data.technical_details = <<>>
       \/ /\ invention_data.structured_sections = structured_sections(page.shell.headings)
          /\ invention_data.technical_details = technical_details(page.shell.paragraphs)
    /\ \/ /\ invention_data.images = <<>>
          /\ invention_data.diagrams = <<>>
       \/ /\ \A k \in DOMAIN page.imgs : ~urljoin_raises(page.imgs[k].src)
          /\ Len(invention_data.images) + Len(invention_data.diagrams)
                = Len(SelectSeq(page.imgs, LAMBDA img : img.src # <<>>))
    /\ \/ invention_data.patents = <<>>
       \/ Range(invention_data.patents) = extract_patent_info(page.text)
    /\ invention_data.references \in {<<>>, references(page.shell.anchors)}

\* C19: extract_invention_content returns its dict whatever a sub-step does:
\* when the dict is returned every field of lines 236-250 is present, a failed
\* sub-step has been logged, and the fields of a sub-step that did not
\* complete are empty.
C19_PartialRecordHasDefaults ==
    pc \in {"x_return", "extracted"} =>
        /\ C19_Fields \subseteq DOMAIN invention_data
        /\ ExtractError \in log => C19_EmptyOrComplete

\* entries of the run that did not end with their file written and counted
C21_NotSucceeded == {k \in DOMAIN status : status[k] # "written"}

\* C21: every result run_crawler returns, after a complete or an interrupted
\* loop, has successful_crawls + failed_count = total_links and
\* successful_crawls = len(saved_files) <= len(inventions_data); failed_count
\* counts every entry that was not written, the ones an interrupt left
\* unattempted and the ones whose file write failed included.
C21_ResultAccounting ==
    (pc = "returned" /\ result.kind = "dict") =>
        /\ result.successful_crawls + result.failed_count = result.total_links
        /\ result.successful_crawls = Len(result.saved_files)
        /\ Len(result.saved_files) <= Len(inventions_data)
        /\ result.failed_count = Cardinality(C21_NotSucceeded)

\* what the object holds agrees with what it has fetched: every entry URL
\* handed to get_page, now or earlier, and every Record's URL is visited
C22_FetchedAreVisited ==
    /\ Range(fetchLog) \subseteq visited_urls
    /\ (pc \in GetPagePcs /\ gp.caller = "entry") => gp.url \in visited_urls
    /\ Range(RecordUrls) \subseteq visited_urls

\* a step removes nothing from visited_urls; it hands to get_page only an entry
\* URL that was not visited, not fetched and not given up on before; it leaves
\* the Records as they are or appends one, for the page just fetched
C22_OnlyNewUrls ==
    /\ visited_urls \subseteq visited_urls'
    /\ fetchLog' # fetchLog =>
          \E url \in visited_urls' \ visited_urls :
              /\ fetchLog' = Append(fetchLog, url)
              /\ url \notin Range(fetchLog)
              /\ [kind |-> "all_attempts_failed", what |-> url] \notin log
    /\ inventions_data' # inventions_data =>
          /\ Len(inventions_data') = Len(inventions_data) + 1
          /\ Prefix(inventions_data', Len(inventions_data)) = inventions_data
          /\ inventions_data'[Len(inventions_data')].url = fetchLog[Len(fetchLog)]
          /\ fetchLog[Len(fetchLog)] \notin Range(RecordUrls)

\* C22: a URL is put into visited_urls before its entry page is fetched and is
\* never taken out, so no entry URL is fetched twice by one crawler object, a
\* failed one included; a later run_crawler call on the object fetches no
\* entry page an earlier call attempted, adds no Record for it, and keeps the
\* Records of the earlier calls.
C22_VisitedIsPermanent == []C22_FetchedAreVisited /\ [][C22_OnlyNewUrls]_vars

\* C22 witness: a second call has returned after skipping an entry whose fetch
\* the first call gave up on, with a Record of the first call still held
C22_Witness ==
    /\ pc = "returned"
    /\ runs = 2
    /\ Len(inventions_data) >= 1
    /\ \E k \in DOMAIN status : status[k] = "skipped" /\ FetchGaveUp(k)

====
